---- MODULE Spec2Model ----
(***************************************************************************)
(* Model of the response pipeline of data-insights (src/utils.py) and of   *)
(* the streamlit front end that consumes it (src/app.py).                  *)
(*                                                                         *)
(* Text is a sequence of characters.  A character is a one-letter string;  *)
(* the characters that cannot be written inside a TLA+ string literal are  *)
(* named: "dq" is the double quote, "bs" the backslash, "bt" the backtick, *)
(* "tab" "nl" "cr" the whitespace controls, "x01" a control character that *)
(* is not whitespace.                                                      *)
(***************************************************************************)
EXTENDS Integers, Sequences, FiniteSets, TLC

DQ == "dq"
BSL == "bs"
BT == "bt"

(***************************************************************************)
(* Character classes of Python's re module on str patterns.                *)
(***************************************************************************)
SpaceChars == {" ", "tab", "nl", "cr", "ff", "vt", "x1c", "x1d", "x1e", "x1f"}

ControlChars ==
    {"x00", "x01", "x08", "tab", "nl", "vt", "ff", "cr",
     "x1c", "x1d", "x1e", "x1f", "x7f"}

Digits == {"0", "1", "2", "3", "4", "5", "6", "7", "8", "9"}

LowerSeq ==
    <<"a", "b", "c", "d", "e", "f", "g", "h", "i", "j", "k", "l", "m",
      "n", "o", "p", "q", "r", "s", "t", "u", "v", "w", "x", "y", "z">>

UpperSeq ==
    <<"A", "B", "C", "D", "E", "F", "G", "H", "I", "J", "K", "L", "M",
      "N", "O", "P", "Q", "R", "S", "T", "U", "V", "W", "X", "Y", "Z">>

Range(f) == {f[i] : i \in DOMAIN f}

WordChars == Range(LowerSeq) \cup Range(UpperSeq) \cup Digits \cup {"_"}

\* str.lower() on one character
LowerChar(c) ==
    IF c \in Range(UpperSeq)
    THEN LowerSeq[CHOOSE i \in DOMAIN UpperSeq : UpperSeq[i] = c]
    ELSE c

Lower(s) == [i \in DOMAIN s |-> LowerChar(s[i])]

At(s, i) == IF i >= 1 /\ i <= Len(s) THEN s[i] ELSE "eof"

StartsWith(s, i, w) ==
    /\ i >= 1
    /\ i + Len(w) - 1 <= Len(s)
    /\ \A j \in 1..Len(w) : s[i + j - 1] = w[j]

\* number of consecutive \s characters of s from position i on (greedy \s* )
RECURSIVE SpanWs(_, _)
SpanWs(s, i) ==
    IF At(s, i) \in SpaceChars THEN 1 + SpanWs(s, i + 1) ELSE 0

\* number of consecutive commas of s from position i on
RECURSIVE SpanComma(_, _)
SpanComma(s, i) ==
    IF At(s, i) = "," THEN 1 + SpanComma(s, i + 1) ELSE 0

\* \b before position p: exactly one of s[p-1], s[p] is a word character
WordBoundary(s, p) ==
    (At(s, p - 1) \in WordChars) # (At(s, p) \in WordChars)

FenceMark == <<BT, BT, BT>>
FenceJson == <<BT, BT, BT, "j", "s", "o", "n">>

KwSELECT == <<"S", "E", "L", "E", "C", "T">>
KwFROM == <<"F", "R", "O", "M">>
KwWHERE == <<"W", "H", "E", "R", "E">>
KwGROUPBY == <<"G", "R", "O", "U", "P", " ", "B", "Y">>
KwORDERBY == <<"O", "R", "D", "E", "R", " ", "B", "Y">>
KwJOIN == <<"J", "O", "I", "N">>
KwON == <<"O", "N">>

sql_keywords == <<KwSELECT, KwFROM, KwWHERE, KwGROUPBY, KwORDERBY, KwJOIN, KwON>>

(***************************************************************************)
(* The regular expressions of clean_response.  A rule is a record          *)
(* [re, kw]; MatchLen is the length of the rule's match starting at        *)
(* position i of s (0: no match there), Repl the replacement for the match *)
(* at position j.                                                          *)
(***************************************************************************)
Rule(name) == [re |-> name, kw |-> <<>>]
KwRule(keyword) == [re |-> "keyword", kw |-> keyword]

MatchLen(rule, s, i) ==
    CASE rule.re = "fence" ->
           \* ```json\s*|\s*```
           IF StartsWith(s, i, FenceJson)
           THEN 7 + SpanWs(s, i + 7)
           ELSE LET n == SpanWs(s, i)
                IN  IF StartsWith(s, i + n, FenceMark) THEN n + 3 ELSE 0
      [] rule.re = "concat" ->
           \* "\s*\+\s*"
           IF At(s, i) # DQ THEN 0
           ELSE LET n == SpanWs(s, i + 1)
                IN  IF At(s, i + 1 + n) # "+" THEN 0
                    ELSE LET m == SpanWs(s, i + 2 + n)
                         IN  IF At(s, i + 2 + n + m) = DQ
                             THEN n + m + 3 ELSE 0
      [] rule.re = "comma" ->
           \* ,(?=\w)
           IF At(s, i) = "," /\ At(s, i + 1) \in WordChars THEN 1 ELSE 0
      [] rule.re = "backslash" ->
           \* \\\s
           IF At(s, i) = BSL /\ At(s, i + 1) \in SpaceChars THEN 2 ELSE 0
      [] rule.re = "keyword" ->
           \* \bKEYWORD\b(?!\s)
           IF /\ StartsWith(s, i, rule.kw)
              /\ WordBoundary(s, i)
              /\ WordBoundary(s, i + Len(rule.kw))
              /\ At(s, i + Len(rule.kw)) \notin SpaceChars
           THEN Len(rule.kw) ELSE 0
      [] rule.re = "whitespace" ->
           \* \s+
           SpanWs(s, i)
      [] rule.re = "semicolon" ->
           \* \s*;\s*
           LET n == SpanWs(s, i)
           IN  IF At(s, i + n) = ";" THEN n + 1 + SpanWs(s, i + n + 1) ELSE 0
      [] rule.re = "control" ->
           \* [\x00-\x1F\x7F]
           IF At(s, i) \in ControlChars THEN 1 ELSE 0
      [] rule.re = "numquote" ->
           \* (?<=\d)"(?=,)
           IF At(s, i) = DQ /\ At(s, i - 1) \in Digits /\ At(s, i + 1) = ","
           THEN 1 ELSE 0
      [] rule.re = "commas" ->
           \* ,,+
           LET n == SpanComma(s, i) IN IF n >= 2 THEN n ELSE 0
      [] rule.re = "trailing" ->
           \* ,\s*}
           IF At(s, i) # "," THEN 0
           ELSE LET n == SpanWs(s, i + 1)
                IN  IF At(s, i + 1 + n) = "}" THEN n + 2 ELSE 0
      [] rule.re = "escape" ->
           \* json.decoder.scanstring: a backslash and the character after it
           \* (\uXXXX: the four hexadecimal digits too)
           IF At(s, i) # BSL THEN 0 ELSE IF At(s, i + 1) = "u" THEN 6 ELSE 2

\* json.decoder BACKSLASH: the character an escape \c stands for
Unescape(c) ==
    CASE c = DQ -> DQ
      [] c = BSL -> BSL
      [] c = "/" -> "/"
      [] c = "b" -> "x08"
      [] c = "f" -> "ff"
      [] c = "n" -> "nl"
      [] c = "r" -> "cr"
      [] c = "t" -> "tab"
      [] c = "u" -> "u+"      \* one character, whichever the digits name
      [] OTHER -> "invalid"

Repl(rule, s, j) ==
    CASE rule.re = "fence" -> <<>>
      [] rule.re = "concat" -> <<" ">>
      [] rule.re = "comma" -> <<",", " ">>
      [] rule.re = "backslash" -> <<" ">>
      [] rule.re = "keyword" -> rule.kw \o <<" ">>
      [] rule.re = "whitespace" -> <<" ">>
      [] rule.re = "semicolon" -> <<";">>
      [] rule.re = "control" -> <<>>
      [] rule.re = "numquote" -> <<>>
      [] rule.re = "commas" -> <<",">>
      [] rule.re = "trailing" -> <<"}">>
      [] rule.re = "escape" -> <<Unescape(At(s, j + 1))>>

\* the least element of a non-empty set of positions
MinOf(S) == CHOOSE a \in S : \A b \in S : a <= b

\* The element of a one-element set.  Only({e : v \in {d}}) is e with v
\* standing for the value of d, computed once (LET v == d IN e computes d
\* again wherever e reads v).
Only(S) == CHOOSE r \in S : TRUE

\* the leftmost match among the positions later: where it starts, and where
\* the text after it starts
LeftmostMatch(rule, s, later) ==
    LET j == MinOf(later) IN <<j, j + MatchLen(rule, s, j)>>

\* re.sub(rule, Repl(rule), s) from position i on: the leftmost match, then the
\* leftmost match that starts after it, and so on; starts is the set of
\* positions where the rule matches
RECURSIVE SubFrom(_, _, _, _)
SubFrom(rule, s, starts, i) ==
    IF \A j \in starts : j < i THEN SubSeq(s, i, Len(s))
    ELSE Only({SubSeq(s, i, m[1] - 1) \o Repl(rule, s, m[1])
                  \o SubFrom(rule, s, starts, m[2]) :
               m \in {LeftmostMatch(rule, s, {j \in starts : j >= i})}})

ReSub(rule, text) ==
    Only({SubFrom(rule, b[1], b[2], 1) :
          b \in {Only({<<s, {j \in 1..Len(s) : MatchLen(rule, s, j) > 0}>> :
                       s \in {text}})}})

\* the loop over sql_keywords (utils.py 133-135)
RECURSIVE KeywordSpacing(_, _)
KeywordSpacing(s, k) ==
    IF k > Len(sql_keywords) THEN s
    ELSE KeywordSpacing(ReSub(KwRule(sql_keywords[k]), s), k + 1)

\* the first pass of clean_response (utils.py 118-142)
FirstPass(response_text) ==
    LET t1 == ReSub(Rule("fence"), response_text)
        t2 == ReSub(Rule("concat"), t1)
        t3 == ReSub(Rule("comma"), t2)
        t4 == ReSub(Rule("backslash"), t3)
        t5 == KeywordSpacing(t4, 1)
        t6 == ReSub(Rule("whitespace"), t5)
        t7 == ReSub(Rule("semicolon"), t6)
    IN  ReSub(Rule("control"), t7)

\* the second pass, taken when json.loads rejects the first (utils.py 154-158)
SecondPass(cleaned_text) ==
    LET u1 == ReSub(Rule("numquote"), cleaned_text)
        u2 == ReSub(Rule("commas"), u1)
    IN  ReSub(Rule("trailing"), u2)

(***************************************************************************)
(* json.loads.  A JSON value is a record [t, s, a, k]: t its type, s the   *)
(* characters of a string or the lexeme of a number, a the elements of an  *)
(* array or the values of an object, k the keys of an object (a Python     *)
(* dict: a repeated key keeps its first place and takes the last value).   *)
(***************************************************************************)
JVal(t, s, a, k) == [t |-> t, s |-> s, a |-> a, k |-> k]
JNull == JVal("null", <<>>, <<>>, <<>>)
JTrue == JVal("true", <<>>, <<>>, <<>>)
JFalse == JVal("false", <<>>, <<>>, <<>>)
JNum(lexeme) == JVal("num", lexeme, <<>>, <<>>)
JStr(chars) == JVal("str", chars, <<>>, <<>>)
JArr(items) == JVal("arr", <<>>, items, <<>>)
JObj(keys, vals) == JVal("obj", <<>>, vals, keys)

\* dict[key] = val
DictSet(dict, key, val) ==
    Only({IF \E n \in DOMAIN d.k : d.k[n] = key
          THEN JObj(d.k, [d.a EXCEPT ![CHOOSE n \in DOMAIN d.k : d.k[n] = key] = val])
          ELSE JObj(Append(d.k, key), Append(d.a, val)) :
          d \in {dict}})

HasKey(d, key) == \E n \in DOMAIN d.k : d.k[n] = key

\* dict.get(key, default)
DictGet(d, key, default) ==
    IF HasKey(d, key)
    THEN d.a[CHOOSE n \in DOMAIN d.k : d.k[n] = key]
    ELSE default

\* json.decoder.WHITESPACE
JsonSpace == {" ", "tab", "nl", "cr"}

RECURSIVE SpanJsonWs(_, _)
SpanJsonWs(s, i) ==
    IF At(s, i) \in JsonSpace THEN 1 + SpanJsonWs(s, i + 1) ELSE 0

SkipWs(s, i) == i + SpanJsonWs(s, i)

RECURSIVE SpanDigits(_, _)
SpanDigits(s, i) ==
    IF At(s, i) \in Digits THEN 1 + SpanDigits(s, i + 1) ELSE 0

\* json.scanner.NUMBER_RE: (-?(?:0|[1-9]\d*))(\.\d+)?([eE][-+]?\d+)?
NumberLen(s, i) ==
    LET sign == IF At(s, i) = "-" THEN 1 ELSE 0
        int == IF At(s, i + sign) = "0" THEN 1 ELSE SpanDigits(s, i + sign)
        f == i + sign + int
        frac == IF At(s, f) = "." /\ SpanDigits(s, f + 1) > 0
                THEN 1 + SpanDigits(s, f + 1) ELSE 0
        e == f + frac
        esign == IF At(s, e + 1) \in {"+", "-"} THEN 1 ELSE 0
        exp == IF At(s, e) \in {"e", "E"} /\ SpanDigits(s, e + 1 + esign) > 0
               THEN 1 + esign + SpanDigits(s, e + 1 + esign) ELSE 0
    IN  IF int = 0 THEN 0 ELSE sign + int + frac + exp

\* number of consecutive backslashes that end right before position j
RECURSIVE BackslashRun(_, _)
BackslashRun(s, j) ==
    IF At(s, j - 1) = BSL THEN 1 + BackslashRun(s, j - 1) ELSE 0

Fail == [ok |-> FALSE, v |-> JNull, p |-> 0]
Parsed(v, p) == [ok |-> TRUE, v |-> v, p |-> p]

\* the position of the quote that ends the string opened before position i
\* (0: none): the first quote not preceded by an odd run of backslashes
RECURSIVE StringEnd(_, _, _)
StringEnd(s, open, i) ==
    IF \A j \in i..Len(s) : s[j] # DQ THEN 0
    ELSE Only({IF (IF BackslashRun(s, j) > j - open - 1 THEN j - open - 1
                   ELSE BackslashRun(s, j)) % 2 = 0
               THEN j
               ELSE StringEnd(s, open, j + 1) :
               j \in {MinOf({j \in i..Len(s) : s[j] = DQ})}})

HexChars == Digits \cup {"a", "b", "c", "d", "e", "f", "A", "B", "C", "D", "E", "F"}

\* json.decoder.scanstring (strict) from the opening quote at position i
StringBody(body, j) ==
    LET escapes == {n \in DOMAIN body :
                       body[n] = BSL /\ BackslashRun(body, n) % 2 = 0}
    IN  IF \E n \in DOMAIN body : body[n] \in ControlChars \ {"x7f"} THEN Fail
        ELSE IF \E n \in escapes :
                    \/ Unescape(At(body, n + 1)) = "invalid"
                    \/ /\ At(body, n + 1) = "u"
                       /\ \E h \in 2..5 : At(body, n + h) \notin HexChars
             THEN Fail
        ELSE Parsed(JStr(ReSub(Rule("escape"), body)), j + 1)

ParseString(s, i) ==
    Only({IF j = 0 THEN Fail
          ELSE Only({StringBody(body, j) : body \in {SubSeq(s, i + 1, j - 1)}}) :
          j \in {StringEnd(s, i, i + 1)}})

RECURSIVE ParseValue(_, _)
RECURSIVE ParseMembers(_, _, _)
RECURSIVE ParseElements(_, _, _)
RECURSIVE PairAt(_, _)

\* json.scanner.scan_once
ParseValue(s, i) ==
    LET c == At(s, i)
        W(word) == StartsWith(s, i, word)
    IN  CASE c = DQ -> ParseString(s, i)
          [] c = "{" ->
               Only({IF At(s, j) = "}" THEN Parsed(JObj(<<>>, <<>>), j + 1)
                     ELSE ParseMembers(s, j, JObj(<<>>, <<>>)) :
                     j \in {SkipWs(s, i + 1)}})
          [] c = "[" ->
               Only({IF At(s, j) = "]" THEN Parsed(JArr(<<>>), j + 1)
                     ELSE ParseElements(s, j, <<>>) :
                     j \in {SkipWs(s, i + 1)}})
          [] c = "n" /\ W(<<"n", "u", "l", "l">>) -> Parsed(JNull, i + 4)
          [] c = "t" /\ W(<<"t", "r", "u", "e">>) -> Parsed(JTrue, i + 4)
          [] c = "f" /\ W(<<"f", "a", "l", "s", "e">>) -> Parsed(JFalse, i + 5)
          [] OTHER ->
               Only({IF n > 0 THEN Parsed(JNum(SubSeq(s, i, i + n - 1)), i + n)
                     ELSE IF W(<<"N", "a", "N">>)
                     THEN Parsed(JNum(SubSeq(s, i, i + 2)), i + 3)
                     ELSE IF W(<<"I", "n", "f", "i", "n", "i", "t", "y">>)
                     THEN Parsed(JNum(SubSeq(s, i, i + 7)), i + 8)
                     ELSE IF W(<<"-", "I", "n", "f", "i", "n", "i", "t", "y">>)
                     THEN Parsed(JNum(SubSeq(s, i, i + 8)), i + 9)
                     ELSE Fail :
                     n \in {NumberLen(s, i)}})

\* one pair of an object, from its key at position i: [ok, key, val, e], e the
\* position of what follows the value
PairAt(s, i) ==
    LET key == ParseString(s, i)
        c == SkipWs(s, key.p)
        bad == [ok |-> FALSE, key |-> <<>>, val |-> JNull, e |-> 0]
    IN  IF At(s, i) # DQ THEN bad
        ELSE IF ~key.ok THEN bad
        ELSE IF At(s, c) # ":" THEN bad
        ELSE Only({[ok |-> val.ok, key |-> key.v.s, val |-> val.v,
                    e |-> SkipWs(s, val.p)] :
                   val \in {ParseValue(s, SkipWs(s, c + 1))}})

\* json.decoder.JSONObject: the pairs of an object, from the key at position i
ParseMembers(s, i, acc) ==
    Only({IF ~pair.ok THEN Fail
          ELSE IF At(s, pair.e) = "}"
          THEN Parsed(DictSet(acc, pair.key, pair.val), pair.e + 1)
          ELSE IF At(s, pair.e) = ","
          THEN ParseMembers(s, SkipWs(s, pair.e + 1),
                            DictSet(acc, pair.key, pair.val))
          ELSE Fail :
          pair \in {PairAt(s, i)}})

\* json.decoder.JSONArray: the elements of an array, from the one at position i
ParseElements(s, i, acc) ==
    Only({IF ~val.ok THEN Fail
          ELSE IF At(s, SkipWs(s, val.p)) = "]"
          THEN Parsed(JArr(Append(acc, val.v)), SkipWs(s, val.p) + 1)
          ELSE IF At(s, SkipWs(s, val.p)) = ","
          THEN ParseElements(s, SkipWs(s, SkipWs(s, val.p) + 1), Append(acc, val.v))
          ELSE Fail :
          val \in {ParseValue(s, i)}})

\* json.loads(text): [ok |-> FALSE] stands for json.JSONDecodeError
JsonLoads(text) ==
    Only({Only({IF r.ok /\ SkipWs(s, r.p) = Len(s) + 1 THEN r ELSE Fail :
                r \in {Only({ParseValue(s, i) : i \in {SkipWs(s, 1)}})}}) :
          s \in {text}})

\* clean_response (utils.py 115-160)
clean_response(response_text) ==
    Only({IF JsonLoads(cleaned_text).ok THEN cleaned_text
          ELSE SecondPass(cleaned_text) :
          cleaned_text \in {FirstPass(response_text)}})

(***************************************************************************)
(* The names the code looks up, as text.                                   *)
(***************************************************************************)
S_response_type == <<"r", "e", "s", "p", "o", "n", "s", "e", "_", "t", "y", "p", "e">>
S_info == <<"i", "n", "f", "o">>
S_analysis == <<"a", "n", "a", "l", "y", "s", "i", "s">>
S_answer == <<"a", "n", "s", "w", "e", "r">>
S_insights == <<"i", "n", "s", "i", "g", "h", "t", "s">>
S_insight == <<"i", "n", "s", "i", "g", "h", "t">>
S_business_value == <<"b", "u", "s", "i", "n", "e", "s", "s", "_", "v", "a", "l", "u", "e">>
S_sql_query == <<"s", "q", "l", "_", "q", "u", "e", "r", "y">>
S_visualization == <<"v", "i", "s", "u", "a", "l", "i", "z", "a", "t", "i", "o", "n">>
S_metrics == <<"m", "e", "t", "r", "i", "c", "s">>
S_bar_chart == <<"b", "a", "r", "_", "c", "h", "a", "r", "t">>
S_line_chart == <<"l", "i", "n", "e", "_", "c", "h", "a", "r", "t">>
S_heatmap == <<"h", "e", "a", "t", "m", "a", "p">>
S_unable_to_generate ==
    <<"u", "n", "a", "b", "l", "e", " ", "t", "o", " ", "g", "e", "n", "e", "r", "a", "t", "e">>

\* the fields of the dataclass Insight (utils.py 12-18)
InsightFields ==
    {S_insight, S_business_value, S_sql_query, S_visualization, S_metrics}

(***************************************************************************)
(* Python values.  None is JNull (json.loads gives None for null); a str   *)
(* the code builds is a JStr whose characters are the pieces of the        *)
(* f-string (a literal piece is one element).  A call either returns a     *)
(* value or raises: [raised |-> "" or the exception's class, value].       *)
(***************************************************************************)
None == JNull

\* str(v) inside an f-string
PyStr(v) ==
    CASE v.t = "str" -> v.s
      [] v.t = "num" -> v.s
      [] v.t = "null" -> <<"None">>
      [] v.t = "true" -> <<"True">>
      [] v.t = "false" -> <<"False">>
      [] v.t = "arr" -> <<"[", "...", "]">>
      [] v.t = "obj" -> <<"{", "...", "}">>

\* the dataclass AnalysisResponse (utils.py 21-25): insights is None when
\* insights.none, else the list insights.items
AnalysisResponse(response_type, insights, answer) ==
    [response_type |-> response_type, insights |-> insights, answer |-> answer]

NoInsights == [none |-> TRUE, items |-> <<>>]
InsightList(items) == [none |-> FALSE, items |-> items]

ErrorResponse(pieces) == AnalysisResponse("error", NoInsights, JStr(pieces))

NoResponse == AnalysisResponse("", NoInsights, None)

Return(v) == [raised |-> "", value |-> v]
Raise(e) == [raised |-> e, value |-> NoResponse]

\* needle in haystack, for two str
Contains(haystack, needle) ==
    \E i \in 1..(Len(haystack) - Len(needle) + 1) : StartsWith(haystack, i, needle)

\* the elements a for loop draws from v: a list's items, a dict's keys, a
\* str's characters; anything else is not iterable (TypeError)
Iterable(v) == v.t \in {"arr", "obj", "str"}

Elements(v) ==
    CASE v.t = "arr" -> v.a
      [] v.t = "obj" -> [n \in DOMAIN v.k |-> JStr(v.k[n])]
      [] v.t = "str" -> [n \in DOMAIN v.s |-> JStr(<<v.s[n]>>)]
      [] OTHER -> <<>>

\* Insight(**insight) succeeds: insight is a mapping whose keys are exactly the
\* five fields (a missing or an unexpected keyword is a TypeError)
InsightAccepts(insight) ==
    /\ insight.t = "obj"
    /\ Range(insight.k) = InsightFields

\* Insight(**insight)
Insight(insight) ==
    [insight |-> DictGet(insight, S_insight, None),
     business_value |-> DictGet(insight, S_business_value, None),
     sql_query |-> DictGet(insight, S_sql_query, None),
     visualization |-> DictGet(insight, S_visualization, None),
     metrics |-> DictGet(insight, S_metrics, None)]

\* the elif branch of parse_response (utils.py 173-177): the list
\* comprehension over response_dict.get("insights", [])
AnalysisBranch(elements) ==
    IF ~Iterable(elements) THEN Raise("TypeError")
    ELSE Only({IF \E n \in DOMAIN items : ~InsightAccepts(items[n])
               THEN Raise("TypeError")
               ELSE Return(AnalysisResponse("analysis",
                              InsightList([n \in DOMAIN items |-> Insight(items[n])]),
                              None)) :
               items \in {Elements(elements)}})

\* the try block of parse_response after json.loads (utils.py 168-182)
ResponseFromDict(response_dict) ==
    IF response_dict.t # "obj"
    THEN Raise("AttributeError")      \* no .get on a list, str, number, None
    ELSE Only({IF response_type = JStr(S_info)
               THEN Return(AnalysisResponse("info", NoInsights,
                       DictGet(response_dict, S_answer, JStr(<<"No answer provided.">>))))
               ELSE IF response_type = JStr(S_analysis)
               THEN AnalysisBranch(DictGet(response_dict, S_insights, JArr(<<>>)))
               ELSE Return(ErrorResponse(
                       <<"Unknown response type: ">> \o PyStr(response_type))) :
               response_type \in {DictGet(response_dict, S_response_type, None)}})

\* parse_response (utils.py 162-191)
parse_response(cleaned_response) ==
    Only({IF loaded.ok THEN ResponseFromDict(loaded.v)
          ELSE \* except json.JSONDecodeError
               IF Contains(Lower(cleaned_response), S_unable_to_generate)
               THEN Return(AnalysisResponse("error", NoInsights, JStr(cleaned_response)))
               ELSE Return(ErrorResponse(<<"Failed to parse response: ", "JSONDecodeError">>)) :
          loaded \in {JsonLoads(cleaned_response)}})

\* an except clause that lets the exception go on to the caller
Propagates(e) == Raise(e)

\* the except clause of generate_insights (utils.py 212-215)
ErrorGeneratingInsights(e) ==
    Return(ErrorResponse(<<"Error generating insights: ", e>>))

(***************************************************************************)
(* What the front end does with Python values (app.py 61-80, 127-147).     *)
(* A value of an expression is [raised, v]: raised names the exception     *)
(* ("": none).                                                             *)
(***************************************************************************)
Value(v) == [raised |-> "", v |-> v]
Throws(e) == [raised |-> e, v |-> None]

\* bool(v)
Truthy(v) ==
    CASE v.t = "null" -> FALSE
      [] v.t = "false" -> FALSE
      [] v.t = "true" -> TRUE
      [] v.t = "num" -> \E n \in DOMAIN v.s : v.s[n] \in Digits \ {"0"}
      [] v.t = "str" -> v.s # <<>>
      [] v.t = "arr" -> v.a # <<>>
      [] v.t = "obj" -> v.k # <<>>

\* len(v), for the values that have one
PyLen(v) ==
    CASE v.t = "str" -> Len(v.s)
      [] v.t = "arr" -> Len(v.a)
      [] v.t = "obj" -> Len(v.k)
      [] OTHER -> 0

\* v[n], n counted from 0
Subscript(v, n) ==
    CASE v.t = "arr" -> IF n < Len(v.a) THEN Value(v.a[n + 1]) ELSE Throws("IndexError")
      [] v.t = "str" -> IF n < Len(v.s) THEN Value(JStr(<<v.s[n + 1]>>))
                        ELSE Throws("IndexError")
      [] v.t = "obj" -> Throws("KeyError")
      [] OTHER -> Throws("TypeError")

\* "." in v
DotIn(v) ==
    CASE v.t = "str" -> Value(IF "." \in Range(v.s) THEN JTrue ELSE JFalse)
      [] v.t = "arr" -> Value(IF JStr(<<".">>) \in Range(v.a) THEN JTrue ELSE JFalse)
      [] v.t = "obj" -> Value(IF <<".">> \in Range(v.k) THEN JTrue ELSE JFalse)
      [] OTHER -> Throws("TypeError")

\* name.split(".")[-1] on the characters of a str
LastSegment(name) ==
    LET dots == {n \in DOMAIN name : name[n] = "."}
    IN  IF dots = {} THEN name
        ELSE SubSeq(name, 1 + CHOOSE n \in dots : \A m \in dots : m <= n, Len(name))

\* v.split(".")[-1]
SplitLast(v) ==
    IF v.t = "str" THEN Value(JStr(LastSegment(v.s))) ELSE Throws("AttributeError")

\* metrics[n].split(".")[-1] if "." in metrics[n] else metrics[n]
CleanName(metrics, n) ==
    LET name == Subscript(metrics, n)
        dotted == DotIn(name.v)
    IN  IF name.raised # "" THEN name
        ELSE IF dotted.raised # "" THEN Throws(dotted.raised)
        ELSE IF dotted.v = JTrue THEN SplitLast(name.v)
        ELSE name

\* app.py 69-73
XLabel(metrics) ==
    IF Truthy(metrics) THEN CleanName(metrics, 0) ELSE Subscript(metrics, 0)

\* app.py 74-80
YLabel(metrics) ==
    IF metrics.t \notin {"str", "arr", "obj"} THEN Throws("TypeError")
    ELSE IF PyLen(metrics) > 1 THEN CleanName(metrics, 1)
    ELSE Value(None)

\* the cross mark the page puts before an error, written in ASCII
CrossMark == "(x) "

\* what pd.read_sql_query and the data store can answer for an insight: it
\* raises, or it returns a frame: its columns, and whether DataFrame.corr
\* accepts them
MetricNames(insight) ==
    IF insight.metrics.t # "arr" THEN {}
    ELSE {insight.metrics.a[n].s : n \in DOMAIN insight.metrics.a}

NoFrame == [raised |-> "", columns |-> {}, numeric |-> FALSE]

SqlOutcomes(insight) ==
    {[raised |-> "DatabaseError", columns |-> {}, numeric |-> FALSE],
     NoFrame,
     [raised |-> "", columns |-> {<<"t", ".">> \o LastSegment(name) :
                                     name \in MetricNames(insight)},
      numeric |-> TRUE]}

\* app.py 64-66: the table prefixes are taken off the column names
CleanColumns(df) == [df EXCEPT !.columns = {LastSegment(col) : col \in df.columns}]

\* metrics[1] read without the length test of app.py 76-78
YLabelUnguarded(metrics) ==
    IF metrics.t \notin {"str", "arr", "obj"} THEN Throws("TypeError")
    ELSE CleanName(metrics, 1)

\* app.py 59-102 with y_label read without the length test
InsightEntryUnguarded(insight, sql) ==
    LET x_label == XLabel(insight.metrics)
        y_label == YLabelUnguarded(insight.metrics)
        e == IF sql.raised # "" THEN sql.raised
             ELSE IF x_label.raised # "" THEN x_label.raised
             ELSE y_label.raised
    IN  IF e # ""
        THEN [insight |-> JStr(<<CrossMark, "Error processing visualization: ", e>>),
              visualizations |-> <<>>]
        ELSE [insight |-> insight.insight,
              visualizations |-> <<[type |-> insight.visualization,
                                    data |-> CleanColumns(sql),
                                    x_label |-> x_label.v,
                                    y_label |-> y_label.v]>>]

\* app.py 59-102: the entry one insight adds to insights_list, given what the
\* SQL execution answers
InsightEntry(insight, sql) ==
    LET x_label == XLabel(insight.metrics)
        y_label == YLabel(insight.metrics)
        e == IF sql.raised # "" THEN sql.raised
             ELSE IF x_label.raised # "" THEN x_label.raised
             ELSE y_label.raised
    IN  IF e # ""
        THEN [insight |-> JStr(<<CrossMark, "Error processing visualization: ", e>>),
              visualizations |-> <<>>]
        ELSE [insight |-> insight.insight,
              visualizations |-> <<[type |-> insight.visualization,
                                    data |-> CleanColumns(sql),
                                    x_label |-> x_label.v,
                                    y_label |-> y_label.v]>>]

\* app.py 50-56, 103-116: the entry of a response that is not an analysis
PlainEntry(response) ==
    [insight |-> CASE response.response_type = "info" -> response.answer
                   [] response.response_type = "error" ->
                        JStr(<<CrossMark>> \o PyStr(response.answer))
                   [] OTHER -> JStr(<<CrossMark, "Error: ">> \o PyStr(response.answer)),
     visualizations |-> <<>>]

\* app.py 127-147: the chart st draws for viz ("none": none), or the
\* exception that drawing it raises
Chart(viz) ==
    LET kind == Lower(viz.type.s)
        labelled == Truthy(viz.x_label) /\ Truthy(viz.y_label)
        indexed == /\ viz.x_label.t = "str" /\ viz.x_label.s \in viz.data.columns
                   /\ viz.y_label.t = "str" /\ viz.y_label.s \in viz.data.columns
    IN  IF viz.type.t # "str" THEN Throws("AttributeError")    \* no .lower()
        ELSE IF kind = S_line_chart /\ labelled
        THEN IF indexed THEN Value(JStr(S_line_chart)) ELSE Throws("KeyError")
        ELSE IF kind = S_bar_chart /\ labelled
        THEN IF indexed THEN Value(JStr(S_bar_chart)) ELSE Throws("KeyError")
        ELSE IF kind = S_heatmap
        THEN IF viz.data.numeric THEN Value(JStr(S_heatmap)) ELSE Throws("ValueError")
        ELSE Value(JStr(<<"none">>))

(***************************************************************************)
(* The texts the model call can return.  The code takes any text; the      *)
(* model draws it from the shapes the prompt asks for (utils.py 55-72) and *)
(* from the defects clean_response is written for.                         *)
(***************************************************************************)
Q(w) == <<DQ>> \o w \o <<DQ>>

RECURSIVE Join(_, _)
Join(parts, sep) ==
    IF parts = <<>> THEN <<>>
    ELSE IF Len(parts) = 1 THEN parts[1]
    ELSE parts[1] \o sep \o Join(Tail(parts), sep)

Member(key, value) == Q(key) \o <<":">> \o value
Object(members) == <<"{">> \o Join(members, <<",">>) \o <<"}">>
Array(items) == <<"[">> \o Join(items, <<",">>) \o <<"]">>
Fenced(body) == FenceJson \o <<"nl">> \o body \o <<"nl">> \o FenceMark

\* SELECT a,b FROM t
SqlPlain == KwSELECT \o <<" ", "a", ",", "b", " ">> \o KwFROM \o <<" ", "t">>
\* SELECT a FROM t WHERE n='x,y' LIMIT 10
SqlLiteral ==
    KwSELECT \o <<" ", "a", " ">> \o KwFROM \o <<" ", "t", " ">> \o KwWHERE
        \o <<" ", "n", "=", "'", "x", ",", "y", "'", " ", "L", "I", "M", "I", "T", " ", "1", "0">>

InsightKinds == {"two", "one", "none", "missing", "fenced_key"}

\* one element of "insights", as the model writes it
InsightText(kind) ==
    LET sql == IF kind = "one" THEN SqlLiteral ELSE SqlPlain
        key == IF kind = "fenced_key" THEN S_sql_query \o FenceMark ELSE S_sql_query
        chart == CASE kind = "one" -> S_line_chart
                   [] kind = "fenced_key" -> S_heatmap
                   [] OTHER -> S_bar_chart
        names == CASE kind = "none" -> <<>>
                   [] kind = "one" -> <<Q(<<"t", ".", "a">>)>>
                   [] OTHER -> <<Q(<<"a">>), Q(<<"b">>)>>
    IN  Object(<<Member(S_insight, Q(<<"i">>)),
                 Member(S_business_value, Q(<<"v">>))>>
               \o (IF kind = "missing" THEN <<>> ELSE <<Member(key, Q(sql))>>)
               \o <<Member(S_visualization, Q(chart)),
                    Member(S_metrics, Array(names))>>)

\* the largest number of elements of "insights" the model call returns here
MaxInsights == 2

RECURSIVE KindLists(_)
KindLists(n) ==
    IF n = 0 THEN {<<>>}
    ELSE LET shorter == KindLists(n - 1)
         IN  shorter \cup {Append(l, k) : l \in {m \in shorter : Len(m) = n - 1},
                                          k \in InsightKinds}

AnalysisTexts ==
    {Object(<<Member(S_response_type, Q(S_analysis)),
              Member(S_insights, Array([n \in DOMAIN l |-> InsightText(l[n])]))>>) :
        l \in KindLists(MaxInsights)}
    \cup {Object(<<Member(S_response_type, Q(S_analysis))>>),
          Object(<<Member(S_response_type, Q(S_analysis)),
                   Member(S_insights, <<"n", "u", "l", "l">>)>>)}

InfoTexts ==
    {Object(<<Member(S_response_type, Q(S_info))>> \o rest) :
        rest \in {<<>>,
                  <<Member(S_answer, <<"n", "u", "l", "l">>)>>,
                  <<Member(S_answer, Q(<<"o", "k">>))>>}}
    \cup {Object(<<Member(S_response_type, Q(S_heatmap))>>), Object(<<>>)}

\* values of a one-member object: 1, "1", "+", "x,y", "a\\ b", "a\\\ b",
\* "a<x01>,b", "`` ``````json`"
SampleValues ==
    {<<"1">>, Q(<<"1">>), Q(<<"+">>), Q(<<"x", ",", "y">>),
     Q(<<"a", BSL, BSL, " ", "b">>), Q(<<"a", BSL, BSL, BSL, " ", "b">>),
     Q(<<"a", ",", "x01", "b">>),
     Q(<<BT, BT, " ">> \o FenceMark \o FenceJson \o <<BT>>)}

\* {"a":v} and the same with a trailing comma, {"a":v,}
ObjectTexts ==
    {<<"{">> \o Member(<<"a">>, v) \o tail : v \in SampleValues,
                                           tail \in {<<"}">>, <<",", "}">>}}

PlainTexts ==
    {<<>>, <<" ">>, <<"nl">>, <<"[", "]">>, <<"1">>, <<"n", "u", "l", "l">>,
     Q(<<"s">>), <<"S", "o", "r", "r", "y", ",", " ", "U">> \o Tail(S_unable_to_generate)}

JsonTexts == AnalysisTexts \cup InfoTexts \cup ObjectTexts

ModelTexts == PlainTexts \cup JsonTexts \cup {Fenced(t) : t \in JsonTexts}

\* what generate_content or response.text raise (network, quota, blocked)
ModelErrors == {"ConnectionError", "ValueError"}

\* what the user types at the prompt of start_chat: hello, " Exit ", quit,
\* bye, Top
ChatInputs ==
    {<<"h", "e", "l", "l", "o">>, <<" ", "E", "x", "i", "t", " ">>, <<"q", "u", "i", "t">>,
     <<"b", "y", "e">>, <<"T", "o", "p">>}

\* the number of inputs a chat session is followed for
MaxInputs == 3

\* what the user asks (app.py 24-28, 39-40)
Queries == {"What are the top selling products?", "typed"}

(***************************************************************************)
(* ChatInterface (utils.py 218-285).  What it prints is a sequence of      *)
(* pieces, a literal piece of an f-string being one element.               *)
(***************************************************************************)
\* self.exit_commands (utils.py 223)
exit_commands == {<<"e", "x", "i", "t">>, <<"q", "u", "i", "t">>, <<"b", "y", "e">>}

\* str.strip()
Strip(s) ==
    LET kept == {n \in DOMAIN s : s[n] \notin SpaceChars}
    IN  IF kept = {} THEN <<>>
        ELSE SubSeq(s, MinOf(kept), CHOOSE n \in kept : \A m \in kept : m <= n)

\* the names utils.py binds at module level: its imports (utils.py 1-7) and
\* its classes
ModuleNames ==
    {"os", "json", "re", "Dict", "List", "Optional", "dataclass", "genai", "load_dotenv",
     "Insight", "AnalysisResponse", "PromptTemplate", "InsightGenerator", "ChatInterface"}

\* reading a global name of utils.py: NameError when the module binds none
Global(name) == IF name \in ModuleNames THEN Value(JStr(<<name>>)) ELSE Throws("NameError")

\* ", ".join(metrics) (utils.py 248)
JoinMetrics(metrics) ==
    IF ~Iterable(metrics) THEN Throws("TypeError")
    ELSE Only({IF \E n \in DOMAIN items : items[n].t # "str" THEN Throws("TypeError")
               ELSE Value(JStr(Join([n \in DOMAIN items |-> items[n].s], <<", ">>))) :
               items \in {Elements(metrics)}})

\* utils.py 241-251
format_insight(insight) ==
    LET metrics == JoinMetrics(insight.metrics)
    IN  IF metrics.raised # "" THEN metrics
        ELSE Value(JStr(<<"Insight: ">> \o PyStr(insight.insight)
                        \o <<"Business Value: ">> \o PyStr(insight.business_value)
                        \o <<"Visualization: ">> \o PyStr(insight.visualization)
                        \o <<"Key Metrics: ">> \o metrics.v.s
                        \o <<"SQL: ">> \o PyStr(insight.sql_query)))

\* utils.py 234-239
format_analysis_response(response) ==
    LET items == IF response.insights.none THEN <<>> ELSE response.insights.items
        parts == [n \in DOMAIN items |-> format_insight(items[n])]
    IN  IF \E n \in DOMAIN parts : parts[n].raised # ""
        THEN Throws(parts[CHOOSE n \in DOMAIN parts :
                             /\ parts[n].raised # ""
                             /\ \A m \in 1..(n - 1) : parts[m].raised = ""].raised)
        ELSE Value(JStr(<<"AI-generated insights & queries:">>
                        \o Join([n \in DOMAIN parts |-> parts[n].v.s], <<>>)))

\* utils.py 230-232, 253-262: the formatter of the response type, the error
\* formatter for a type that has none
format_response(response) ==
    CASE response.response_type = "info" -> Value(JStr(<<"AI: ">> \o PyStr(response.answer)))
      [] response.response_type = "analysis" -> format_analysis_response(response)
      [] OTHER -> Value(JStr(<<"Error: ">> \o PyStr(response.answer)))

\* utils.py 264-268: the dict is built, pd.Timestamp.now() in it, and then
\* appended; the chat history after the call, and what the call raised
save_to_history(history, user_input, response) ==
    LET pd == Global("pd")
    IN  IF pd.raised # "" THEN [raised |-> pd.raised, history |-> history]
        ELSE [raised |-> "",
              history |-> Append(history, [timestamp |-> "now", user |-> user_input,
                                           ai |-> response])]

(***************************************************************************)
(* The state.                                                              *)
(***************************************************************************)
VARIABLES
    pc,                \* where the request is
    caller,            \* who made the outermost call: "app", "chat" or "parse_response"
    messages,          \* st.session_state.messages
    response_text,     \* response.text in generate_insights
    cleaned_response,  \* what clean_response returned / parse_response is given
    calls,             \* the methods of InsightGenerator entered for this request
    caught,            \* the exception generate_insights caught ("": none)
    outcome,           \* what the outermost call returned or raised
    insights_list,     \* app.py 48
    idx,               \* position of the loops of app.py 58 and 118
    sql_results,       \* what pd.read_sql_query answered, insight by insight
    shown,             \* what the page shows: the chat messages and their charts
    aborted,           \* the exception that ended the run ("": none)
    chat_history,      \* self.chat_history of the ChatInterface
    inputs,            \* what start_chat has read, stripped and lowered
    console            \* what start_chat has printed

vars == <<pc, caller, messages, response_text, cleaned_response, calls, caught,
          outcome, insights_list, idx, sql_results, shown, aborted,
          chat_history, inputs, console>>

chatVars == <<chat_history, inputs, console>>

NoOutcome == Raise("")

Init ==
    /\ pc = "idle"
    /\ caller = ""
    /\ messages = <<>>
    /\ response_text = <<>>
    /\ cleaned_response = <<>>
    /\ calls = {}
    /\ caught = ""
    /\ outcome = NoOutcome
    /\ insights_list = <<>>
    /\ idx = 0
    /\ sql_results = <<>>
    /\ shown = <<>>
    /\ aborted = ""
    /\ chat_history = <<>>
    /\ inputs = <<>>
    /\ console = <<>>

appVars == <<insights_list, idx, sql_results, shown, aborted>>

\* app.py 42-47: a query arrives and generate_insights is called with it
UserQuery(query) ==
    /\ pc = "idle"
    /\ pc' = "model"
    /\ caller' = "app"
    /\ messages' = Append(messages, [role |-> "user", content |-> query])
    /\ calls' = {"generate_insights"}
    /\ UNCHANGED chatVars
    /\ UNCHANGED <<response_text, cleaned_response, caught, outcome, appVars>>

\* utils.py 201-203, 212-215: the model call, or reading response.text, raises
ModelRaises(e) ==
    /\ pc = "model"
    /\ pc' = "returned"
    /\ caught' = e
    /\ outcome' = ErrorGeneratingInsights(e)
    /\ UNCHANGED chatVars
    /\ UNCHANGED <<caller, messages, response_text, cleaned_response, calls, appVars>>

\* utils.py 201-207: the model call returns text
ModelReturns(text) ==
    /\ pc = "model"
    /\ response_text' = text
    /\ IF text = <<>>       \* not response.text
       THEN /\ pc' = "returned"
            /\ outcome' = Return(ErrorResponse(
                   <<"No response generated. Please try rewording your question.">>))
       ELSE /\ pc' = "clean"
            /\ UNCHANGED outcome
    /\ UNCHANGED chatVars
    /\ UNCHANGED <<caller, messages, cleaned_response, calls, caught, appVars>>

\* utils.py 209: cleaned_response = self.clean_response(response.text)
Clean ==
    /\ pc = "clean"
    /\ pc' = "parse"
    /\ cleaned_response' = clean_response(response_text)
    /\ calls' = calls \cup {"clean_response"}
    /\ UNCHANGED chatVars
    /\ UNCHANGED <<caller, messages, response_text, caught, outcome, appVars>>

\* utils.py 210-215: return self.parse_response(cleaned_response), or the
\* except clause when it raises
Parse ==
    /\ pc = "parse"
    /\ pc' = "returned"
    /\ calls' = calls \cup {"parse_response"}
    /\ LET parsed == parse_response(cleaned_response)
       IN  IF parsed.raised # ""
           THEN /\ caught' = parsed.raised
                /\ outcome' = ErrorGeneratingInsights(parsed.raised)
           ELSE /\ outcome' = parsed
                /\ UNCHANGED caught
    /\ UNCHANGED chatVars
    /\ UNCHANGED <<caller, messages, response_text, cleaned_response, appVars>>

\* parse_response called on its own (utils.py 162), on any text
ParseAlone(text) ==
    /\ pc = "idle"
    /\ pc' = "returned"
    /\ caller' = "parse_response"
    /\ cleaned_response' = text
    /\ calls' = {"parse_response"}
    /\ outcome' = parse_response(text)
    /\ UNCHANGED chatVars
    /\ UNCHANGED <<messages, response_text, caught, appVars>>

\* the caller of parse_response is done with what it got
Finish ==
    /\ pc = "returned"
    /\ caller = "parse_response"
    /\ pc' = "idle"
    /\ caller' = ""
    /\ cleaned_response' = <<>>
    /\ calls' = {}
    /\ outcome' = NoOutcome
    /\ UNCHANGED chatVars
    /\ UNCHANGED <<messages, response_text, caught, appVars>>

\* app.py 47-58, 103-116: the response is back; the entries of a response
\* that is no analysis are made, and the loop over the insights starts
Dispatch ==
    /\ pc = "returned"
    /\ caller = "app"
    /\ LET response == outcome.value
       IN  IF response.response_type = "analysis"
           THEN /\ insights_list' = <<>>
                /\ pc' = IF response.insights.items = <<>> THEN "done" ELSE "insight"
           ELSE /\ insights_list' = <<PlainEntry(response)>>
                /\ pc' = "render"
    /\ idx' = 1
    /\ response_text' = <<>>
    /\ cleaned_response' = <<>>
    /\ UNCHANGED chatVars
    /\ UNCHANGED <<caller, messages, calls, caught, outcome, sql_results, shown, aborted>>

\* app.py 58-102: one turn of the loop over response.insights
ProcessInsight ==
    /\ pc = "insight"
    /\ LET insight == outcome.value.insights.items[idx]
       IN  \E sql \in SqlOutcomes(insight) :
              /\ sql_results' = Append(sql_results, sql)
              /\ insights_list' = Append(insights_list, InsightEntry(insight, sql))
    /\ IF idx = Len(outcome.value.insights.items)
       THEN pc' = "render" /\ idx' = 1
       ELSE pc' = "insight" /\ idx' = idx + 1
    /\ UNCHANGED chatVars
    /\ UNCHANGED <<caller, messages, response_text, cleaned_response, calls, caught,
                   outcome, shown, aborted>>

\* the content of the chat message of an entry (app.py 119-123)
Content(item) == <<"**Insight:** ">> \o PyStr(item.insight)

\* app.py 118-147: one turn of the loop over insights_list: the message is
\* written, then its chart is drawn; an exception there ends the script run
RenderItem ==
    /\ pc = "render"
    /\ LET item == insights_list[idx]
           chart == IF item.visualizations = <<>> THEN Value(JStr(<<"none">>))
                    ELSE Chart(item.visualizations[1])
       IN  /\ shown' = Append(shown, [content |-> Content(item),
                                      chart |-> IF chart.raised # "" THEN <<"none">>
                                                ELSE chart.v.s])
           /\ aborted' = chart.raised
           /\ pc' = IF chart.raised # "" THEN "crashed"
                    ELSE IF idx = Len(insights_list) THEN "done" ELSE "render"
    /\ idx' = idx + 1
    /\ UNCHANGED chatVars
    /\ UNCHANGED <<caller, messages, response_text, cleaned_response, calls, caught,
                   outcome, insights_list, sql_results>>

\* the script run is over (app.py 149, or the exception); the next
\* interaction runs the script again from the top (app.py 30)
Rerun ==
    /\ pc \in {"done", "crashed"}
    /\ pc' = "idle"
    /\ caller' = ""
    /\ messages' = <<>>
    /\ calls' = {}
    /\ caught' = ""
    /\ outcome' = NoOutcome
    /\ insights_list' = <<>>
    /\ idx' = 0
    /\ sql_results' = <<>>
    /\ shown' = <<>>
    /\ aborted' = ""
    /\ UNCHANGED chatVars
    /\ UNCHANGED <<response_text, cleaned_response>>

\* utils.py 219-223, 270-273: a ChatInterface is made and start_chat entered
ChatStart ==
    /\ pc = "idle"
    /\ pc' = "chat_input"
    /\ caller' = "chat"
    /\ chat_history' = <<>>
    /\ inputs' = <<>>
    /\ console' = <<[kind |-> "banner", text |-> <<"Business Insight Chatbot">>]>>
    /\ UNCHANGED <<messages, response_text, cleaned_response, calls, caught, outcome,
                   appVars>>

\* utils.py 276-282: one input is read; an exit command ends the loop, any
\* other input goes to generate_insights
ChatInput(raw) ==
    /\ pc = "chat_input"
    /\ Len(inputs) < MaxInputs
    /\ LET user_input == Lower(Strip(raw))
       IN  /\ inputs' = Append(inputs, user_input)
           /\ IF user_input \in exit_commands
              THEN /\ pc' = "chat_over"
                   /\ console' = Append(console, [kind |-> "exit",
                                                  text |-> <<"Exiting chat. Have a great day!">>])
                   /\ UNCHANGED calls
              ELSE /\ pc' = "model"
                   /\ calls' = {"generate_insights"}
                   /\ UNCHANGED console
    /\ caught' = ""
    /\ outcome' = NoOutcome
    /\ UNCHANGED <<caller, messages, response_text, cleaned_response, chat_history, appVars>>

\* utils.py 283-285: the response is formatted, printed and saved to the
\* history; an exception in any of these ends start_chat
ChatRespond ==
    /\ pc = "returned"
    /\ caller = "chat"
    /\ LET response == outcome.value
           formatted == format_response(response)
           saved == save_to_history(chat_history, inputs[Len(inputs)], response)
       IN  IF outcome.raised # ""
           THEN /\ aborted' = outcome.raised
                /\ pc' = "chat_over"
                /\ UNCHANGED <<console, chat_history>>
           ELSE IF formatted.raised # ""
           THEN /\ aborted' = formatted.raised
                /\ pc' = "chat_over"
                /\ UNCHANGED <<console, chat_history>>
           ELSE /\ console' = Append(console, [kind |-> "response", text |-> formatted.v.s])
                /\ chat_history' = saved.history
                /\ aborted' = saved.raised
                /\ pc' = IF saved.raised # "" THEN "chat_over" ELSE "chat_input"
    /\ response_text' = <<>>
    /\ cleaned_response' = <<>>
    /\ UNCHANGED <<caller, messages, calls, caught, outcome, inputs, insights_list, idx,
                   sql_results, shown>>

\* start_chat is over, by the break of utils.py 279 or by an exception
ChatOver ==
    /\ pc = "chat_over"
    /\ pc' = "idle"
    /\ caller' = ""
    /\ calls' = {}
    /\ caught' = ""
    /\ outcome' = NoOutcome
    /\ aborted' = ""
    /\ chat_history' = <<>>
    /\ inputs' = <<>>
    /\ console' = <<>>
    /\ UNCHANGED <<messages, response_text, cleaned_response, insights_list, idx,
                   sql_results, shown>>

Next ==
    \/ \E query \in Queries : UserQuery(query)
    \/ \E e \in ModelErrors : ModelRaises(e)
    \/ \E text \in ModelTexts : ModelReturns(text)
    \/ Clean
    \/ Parse
    \/ Dispatch
    \/ ProcessInsight
    \/ RenderItem
    \/ Rerun
    \/ \E text \in ModelTexts : ParseAlone(text)
    \/ Finish
    \/ ChatStart
    \/ \E raw \in ChatInputs : ChatInput(raw)
    \/ ChatRespond
    \/ ChatOver

Spec == Init /\ [][Next]_vars

(***************************************************************************)
(* What the properties speak of.                                           *)
(***************************************************************************)
\* generate_insights, called by the page, has returned or raised
Generated == pc = "returned" /\ caller = "app"

\* clean_response has returned and its result is at hand
Cleaned == pc = "parse"

RewordingMessage == <<"No response generated. Please try rewording your question.">>

\* empty, or nothing but whitespace
Blank(text) == \A n \in DOMAIN text : text[n] \in SpaceChars

\* the answer of the error response says what failed: the exception caught,
\* the missing text, or the text that is no JSON
DescribesFailure(answer) ==
    /\ answer.t = "str"
    /\ IF caught # "" THEN answer.s = <<"Error generating insights: ", caught>>
       ELSE IF response_text = <<>> THEN answer.s = RewordingMessage
       ELSE \/ answer.s = <<"Failed to parse response: ", "JSONDecodeError">>
            \/ /\ answer.s = cleaned_response
               /\ Contains(Lower(cleaned_response), S_unable_to_generate)

\* an element of "insights" that Insight cannot be built from
Malformed(v) == v.t # "obj" \/ Range(v.k) # InsightFields

\* an element of "insights" that lacks one of the five fields
Incomplete(v) == v.t # "obj" \/ ~(InsightFields \subseteq Range(v.k))

\* text is JSON, an object whose response_type is "analysis"
IsAnalysis(loaded) ==
    /\ loaded.ok
    /\ loaded.v.t = "obj"
    /\ DictGet(loaded.v, S_response_type, None) = JStr(S_analysis)

\* the failure paths of parse_response: no JSON, no object at the top, an
\* unknown or missing response_type, insights that are no list of objects
\* with exactly the five fields
FailurePath(text) ==
    Only({\/ ~loaded.ok
          \/ loaded.v.t # "obj"
          \/ DictGet(loaded.v, S_response_type, None) \notin {JStr(S_info), JStr(S_analysis)}
          \/ /\ IsAnalysis(loaded)
             /\ Only({insights.t # "arr"
                        \/ \E n \in DOMAIN insights.a : Malformed(insights.a[n]) :
                      insights \in {DictGet(loaded.v, S_insights, JArr(<<>>))}}) :
          loaded \in {JsonLoads(text)}})

\* text is an analysis one of whose insights lacks a field
IncompleteAnalysis(text) ==
    Only({/\ IsAnalysis(loaded)
          /\ Only({/\ insights.t = "arr"
                   /\ \E n \in DOMAIN insights.a : Incomplete(insights.a[n]) :
                   insights \in {DictGet(loaded.v, S_insights, None)}}) :
          loaded \in {JsonLoads(text)}})

\* the insights of a text of the shape the prompt asks for (utils.py 55-72),
\* <<>> when the text has not that shape or has no insights
ShapedInsights(text) ==
    Only({IF ~IsAnalysis(loaded) THEN <<>>
          ELSE Only({IF insights.t # "arr" THEN <<>>
                     ELSE IF \E n \in DOMAIN insights.a :
                                \/ Malformed(insights.a[n])
                                \/ DictGet(insights.a[n], S_sql_query, None).t # "str"
                                \/ DictGet(insights.a[n], S_metrics, None).t # "arr"
                     THEN <<>>
                     ELSE [n \in DOMAIN insights.a |-> Insight(insights.a[n])] :
                     insights \in {DictGet(loaded.v, S_insights, None)}}) :
          loaded \in {JsonLoads(text)}})

\* the characters of an SQL text that carry meaning: all those inside a
\* quoted literal, and outside the literals all but whitespace
RECURSIVE Significant(_, _, _)
Significant(sql, i, quoted) ==
    IF i > Len(sql) THEN <<>>
    ELSE (IF quoted \/ sql[i] \notin SpaceChars THEN <<sql[i]>> ELSE <<>>)
            \o Significant(sql, i + 1, IF sql[i] = "'" THEN ~quoted ELSE quoted)

\* text ends with a comma directly before the closing brace
TrailingComma(text) ==
    /\ Len(text) >= 2
    /\ text[Len(text)] = "}"
    /\ text[Len(text) - 1] = ","

WithoutTrailingComma(text) == SubSeq(text, 1, Len(text) - 2) \o <<"}">>

\* text is a markdown json fence around some body
IsFenced(text) ==
    /\ Len(text) >= Len(FenceJson) + Len(FenceMark) + 2
    /\ StartsWith(text, 1, FenceJson \o <<"nl">>)
    /\ StartsWith(text, Len(text) - Len(FenceMark), <<"nl">> \o FenceMark)

FenceBody(text) == SubSeq(text, Len(FenceJson) + 2, Len(text) - Len(FenceMark) - 1)

\* the page is handling an analysis response
Analysing ==
    /\ caller = "app"
    /\ pc \in {"insight", "render", "done", "crashed"}
    /\ outcome.value.response_type = "analysis"

\* the entry of app.py 97-102
IsErrorEntry(item) ==
    /\ item.visualizations = <<>>
    /\ item.insight.t = "str"
    /\ Len(item.insight.s) = 3
    /\ item.insight.s[2] = "Error processing visualization: "

\* the SQL of the n-th insight raised
SqlRaised(n) == sql_results[n].raised # ""

\* the metrics of the n-th insight
MetricsOf(n) == outcome.value.insights.items[n].metrics

(***************************************************************************)
(* The properties.                                                         *)
(***************************************************************************)
\* C1: generate_insights never lets an exception reach its caller: whatever
\* the model call does (raises, returns empty text, returns text that
\* clean_response or parse_response cannot handle), an AnalysisResponse is
\* returned, and every failure is returned as response_type "error" with an
\* answer that describes the failure.
C1_NoExceptionReachesCaller ==
    Generated =>
        /\ outcome.raised = ""
        /\ outcome.value.response_type \in {"info", "analysis", "error"}
        /\ (caught # "" \/ response_text = <<>> \/ ~JsonLoads(cleaned_response).ok) =>
               /\ outcome.value.response_type = "error"
               /\ DescribesFailure(outcome.value.answer)

\* C1's case: parse_response raised inside generate_insights, and the caller
\* got an error response
C1_Witness ==
    /\ Generated
    /\ caught = "TypeError"
    /\ outcome.raised = ""
    /\ outcome.value.response_type = "error"

\* C2: parse_response, called on its own with any string, never raises, and
\* every failure path returns an AnalysisResponse with response_type "error".
C2_ParseResponseNeverRaises ==
    (pc = "returned" /\ caller = "parse_response") =>
        /\ outcome.raised = ""
        /\ FailurePath(cleaned_response) => outcome.value.response_type = "error"

\* C3: when the model call returns text that is empty or only whitespace,
\* generate_insights returns the error response with the rewording message
\* and neither clean_response nor parse_response is invoked.
C3_BlankTextAsksToReword ==
    (Generated /\ caught = "" /\ Blank(response_text)) =>
        /\ outcome = Return(ErrorResponse(RewordingMessage))
        /\ calls = {"generate_insights"}

\* C4: every AnalysisResponse returned by generate_insights or parse_response
\* has a response_type among info, analysis, error and exactly the matching
\* field populated: info and error a string answer and insights None,
\* analysis a list of Insight and answer None.
C4_TagMatchesPopulatedField ==
    (pc = "returned" /\ outcome.raised = "") =>
        LET response == outcome.value
        IN  \/ /\ response.response_type \in {"info", "error"}
               /\ response.answer.t = "str"
               /\ response.insights.none
            \/ /\ response.response_type = "analysis"
               /\ ~response.insights.none
               /\ response.answer = None

\* C5: when the model's text is a JSON object with response_type "analysis"
\* in which an element of insights lacks one of the five fields, what
\* generate_insights returns has response_type "error".
C5_IncompleteInsightFailsClosed ==
    (Generated /\ response_text # <<>> /\ IncompleteAnalysis(response_text)) =>
        /\ outcome.raised = ""
        /\ outcome.value.response_type = "error"

\* C6: for a text that is a valid JSON object but for one trailing comma
\* directly before the closing brace, what clean_response returns parses to
\* the same object as the text without that comma.
C6_TrailingCommaRepaired ==
    (/\ Cleaned
     /\ TrailingComma(response_text)
     /\ JsonLoads(WithoutTrailingComma(response_text)).ok) =>
        /\ JsonLoads(cleaned_response).ok
        /\ JsonLoads(cleaned_response).v = JsonLoads(WithoutTrailingComma(response_text)).v

\* C7: for every string s that clean_response returned and that is valid
\* JSON, clean_response(s) = s.
C7_CleanResponseIdempotent ==
    (Cleaned /\ JsonLoads(cleaned_response).ok) =>
        clean_response(cleaned_response) = cleaned_response

\* C8: for valid JSON wrapped in a markdown json fence, clean_response
\* returns a string with no fence marker that parses as JSON.
C8_FencedJsonParses ==
    (Cleaned /\ IsFenced(response_text) /\ JsonLoads(FenceBody(response_text)).ok) =>
        /\ ~Contains(cleaned_response, FenceMark)
        /\ JsonLoads(cleaned_response).ok

\* C9: for raw text that is valid JSON of the analysis shape, the sql_query
\* and metrics values parsed from clean_response's output differ from the raw
\* ones at most in whitespace between SQL tokens: the metrics are the same,
\* and so are the characters of each sql_query inside quoted literals and the
\* characters other than whitespace outside them.
C9_SqlAndMetricsUnaltered ==
    (Cleaned /\ ShapedInsights(response_text) # <<>>) =>
        LET raw == ShapedInsights(response_text)
            cleaned == ShapedInsights(cleaned_response)
        IN  /\ Len(cleaned) = Len(raw)
            /\ \A n \in DOMAIN raw :
                  /\ cleaned[n].metrics = raw[n].metrics
                  /\ Significant(cleaned[n].sql_query.s, 1, FALSE)
                        = Significant(raw[n].sql_query.s, 1, FALSE)

NonExitInputs == SelectSeq(inputs, LAMBDA u : u \notin exit_commands)

\* the formatted responses start_chat has printed
PrintedResponses == SelectSeq(console, LAMBDA line : line.kind = "response")

\* C11: in start_chat every input that is no exit command leads to one
\* printed formatted response and one entry appended to chat_history, after
\* which the loop reads the next input; the session ends only when an exit
\* command is entered, so after n such inputs chat_history holds n entries
\* in input order.
C11_ChatHistoryFollowsInputs ==
    (caller = "chat" /\ pc \in {"chat_input", "chat_over"}) =>
        /\ Len(PrintedResponses) = Len(NonExitInputs)
        /\ [n \in DOMAIN chat_history |-> chat_history[n].user] = NonExitInputs
        /\ pc = "chat_over" =>
              /\ aborted = ""
              /\ inputs # <<>>
              /\ inputs[Len(inputs)] \in exit_commands
====
